---- MODULE Spec2Model ----
(***************************************************************************)
(* The OpenAI-compatible gateway of src/app.py as a state machine.         *)
(*                                                                         *)
(* A JSON object (a Python dict) is a function whose DOMAIN is the set of  *)
(* keys that are present: an absent key is a key outside the DOMAIN, and   *)
(* dict.get(key, default) is Get below.  A JSON value whose Python type    *)
(* the code inspects with isinstance is a record tagged with that type:    *)
(*   [py |-> "str", s |-> ...]   [py |-> "list", items |-> <<...>>]       *)
(*   [py |-> "dict", d |-> ...]                                           *)
(* A formatted string (an f-string, str(e)) is the sequence of the pieces  *)
(* it is concatenated from, so that "the text contains x" can be stated.   *)
(***************************************************************************)
EXTENDS Integers, Sequences, FiniteSets, TLC

VARIABLES
    CONFIG,     \* the model registry, built once at start-up
    request,    \* the inbound request being answered
    backend,    \* what the backend did with the outbound call of this request
    calls,      \* the outbound calls issued while answering this request
    log,        \* the log events emitted while answering it, in order
    response,   \* the response returned to the client
    viewer      \* the log viewer: the file it reads, then what it printed

vars == <<CONFIG, request, backend, calls, log, response, viewer>>

-----------------------------------------------------------------------------
(* Bounds of the model *)

\* longest AVAILABLE_MODELS list
MaxModels == 2
\* longest inbound messages list
MaxMessages == 2
\* longest content-part list handed to the normalizer
MaxParts == 3

-----------------------------------------------------------------------------
(* Program constants *)

DEFAULT_MODEL == "databricks-meta-llama-3-1-405b-instruct"
BASE_URL == "https://dbc-dc8dabd2-571d.cloud.databricks.com/serving-endpoints"
DATABRICKS_TOKEN == "dapi-token"
DefaultChatMaxTokens == 2048
DefaultCompletionMaxTokens == 256
DefaultTemperature == "0.7"
DefaultTopP == "1.0"
BackendTimeout == 120
EmbeddingDim == 1536

-----------------------------------------------------------------------------
(* Generic helpers *)

Range(f) == {f[i] : i \in DOMAIN f}

\* dict.get(key, default)
Get(d, key, default) == IF key \in DOMAIN d THEN d[key] ELSE default

\* an optional field: <<>> when the key is absent, <<v>> when it carries v
Optional(S) == {<<>>} \cup {<<v>> : v \in S}
Field(key, opt) == IF Len(opt) = 0 THEN <<>> ELSE key :> opt[1]

SeqsUpTo(S, n) == UNION {[1..k -> S] : k \in 0..n}

Str(s) == [py |-> "str", s |-> s]
List(items) == [py |-> "list", items |-> items]
Dict(d) == [py |-> "dict", d |-> d]

\* sep.join(strings)
RECURSIVE Join(_, _)
Join(sep, strings) ==
    IF Len(strings) = 0 THEN ""
    ELSE IF Len(strings) = 1 THEN strings[1]
    ELSE strings[1] \o sep \o Join(sep, Tail(strings))

-----------------------------------------------------------------------------
(* Configuration: the model registry *)

ConfigurableIds == {DEFAULT_MODEL, "model-a"}

\* the values AVAILABLE_MODELS can take after split(',')
AvailableModelLists == SeqsUpTo(ConfigurableIds, MaxModels) \ {<<>>}

Descriptor(model_id) ==
    [id |-> model_id, object |-> "model", owned_by |-> "organization_owner"]

\* the keys of the dict comprehension, in insertion order (a repeated id
\* keeps its first position)
RECURSIVE Keys(_)
Keys(ids) ==
    IF Len(ids) = 0 THEN <<>>
    ELSE LET front == Keys(SubSeq(ids, 1, Len(ids) - 1))
             last == ids[Len(ids)]
         IN IF last \in Range(front) THEN front ELSE Append(front, last)

BuildConfig(available) ==
    [keys |-> Keys(available),
     models |-> [model_id \in Range(available) |-> Descriptor(model_id)]]

\* the validation left out: every id passes
ModelKnownUnchecked(config, model_id) == TRUE

\* model_id in CONFIG["models"]
ModelKnown(config, model_id) == model_id \in DOMAIN config.models

-----------------------------------------------------------------------------
(* Content normalization *)

\* the loop without the test of the type tag: the text of every dict item
RECURSIVE TextContentUntagged(_)
TextContentUntagged(items) ==
    IF Len(items) = 0 THEN <<>>
    ELSE LET item == items[1]
             rest == TextContentUntagged(Tail(items))
         IN IF item.py = "dict"
            THEN <<Get(item.d, "text", "")>> \o rest
            ELSE rest

\* the loop over the items of a content list: the text of every dict item
\* tagged type "text", in order
RECURSIVE TextContent(_)
TextContent(items) ==
    IF Len(items) = 0 THEN <<>>
    ELSE LET item == items[1]
             rest == TextContent(Tail(items))
         IN IF item.py = "dict" /\ Get(item.d, "type", "") = "text"
            THEN <<Get(item.d, "text", "")>> \o rest
            ELSE rest

\* one iteration of the loop over the inbound messages: a copy of the message
\* whose content, when it is a list, is replaced by the joined text
ProcessMessage(msg) ==
    IF "content" \in DOMAIN msg /\ msg["content"].py = "list"
    THEN [k \in DOMAIN msg |->
            IF k = "content" THEN Str(Join("\n", TextContent(msg["content"].items)))
            ELSE msg[k]]
    ELSE msg

ProcessMessages(messages) == [i \in DOMAIN messages |-> ProcessMessage(messages[i])]

\* the prompt of a completion request as the text of the single user message
PromptText(prompt) ==
    IF prompt.py = "list"
    THEN Str(Join("\n", TextContent(prompt.items)))
    ELSE prompt

-----------------------------------------------------------------------------
(* Logging, responses, faults *)

\* one log event; message is the formatted text as its pieces, payload the
\* value it interpolates through json.dumps or dict(), <<>> when none
Event(logger, level, message, payload) ==
    [logger |-> logger, level |-> level, message |-> message, payload |-> payload]

Debug(message, payload) == Event("request_logger", "DEBUG", message, payload)

\* what a handler leaves behind: the outbound calls it issued, the events it
\* logged, the response it returned, and the backend outcome it consumed
Result(issued, events, status, body) ==
    [calls |-> issued, log |-> events, response |-> [status |-> status, body |-> body]]

\* jsonify(...) with the default status
Ok(issued, events, body) == Result(issued, events, 200, body)

\* the sanitized answer of the errorhandler(500): the handler itself logs
\* nothing; the framework records the escaped exception before calling it
server_error(path, issued, events) ==
    Result(issued,
           Append(events, Event("flask.app", "ERROR", <<"Exception on ", path>>, <<>>)),
           500, [error |-> <<"Internal server error">>])

\* the answer of the errorhandler(404) for a path no route matches
not_found == Result(<<>>, <<>>, 404, [error |-> <<"Not found">>])

\* request.json on a body that is not JSON: the framework answers 400 itself
bad_request == Result(<<>>, <<>>, 400, [html |-> "Bad Request"])

-----------------------------------------------------------------------------
(* The outbound call and its outcome *)

\* the URL with the default model in place of the validated one
InvocationsUrlOfDefault(model_id) == <<BASE_URL, "/", DEFAULT_MODEL, "/invocations">>

InvocationsUrl(model_id) == <<BASE_URL, "/", model_id, "/invocations">>

\* requests.post(url, headers=..., json=..., timeout=120)
Post(model_id, databricks_request) ==
    [method |-> "POST",
     url |-> InvocationsUrl(model_id),
     headers |-> [Authorization |-> <<"Bearer ", DATABRICKS_TOKEN>>],
     json |-> databricks_request,
     timeout |-> BackendTimeout]

\* a backend HTTP response: text is the raw body, json its parsed value
\* (<<>> when the body is not JSON); decode_error is the class of the
\* exception response.json() raises on such a body, which depends on the
\* installed HTTP library
HttpResponse(status_code, reason, text, json, decode_error) ==
    [kind |-> "response", status_code |-> status_code, reason |-> reason,
     text |-> text, json |-> json, decode_error |-> decode_error]

\* response.raise_for_status() raises on a 4xx or 5xx status
RaisesForStatus(outcome) ==
    outcome.status_code >= 400 /\ outcome.status_code < 600

\* requests.post or raise_for_status raised a RequestException
PostFailed(outcome) ==
    \/ outcome.kind \in {"connection_error", "timeout"}
    \/ outcome.kind = "response" /\ RaisesForStatus(outcome)

\* response.json() raises
JsonRaises(outcome) == Len(outcome.json) = 0

\* str(e) of the RequestException
ExceptionText(outcome, model_id) ==
    IF outcome.kind = "connection_error" THEN <<"Connection refused">>
    ELSE IF outcome.kind = "timeout" THEN <<"Read timed out. (read timeout=120)">>
    ELSE IF RaisesForStatus(outcome)
    THEN <<ToString(outcome.status_code),
           IF outcome.status_code < 500 THEN " Client Error: " ELSE " Server Error: ",
           outcome.reason, " for url: ">> \o InvocationsUrl(model_id)
    ELSE <<"Expecting value: line 1 column 1 (char 0)">>

\* e.response is not None
HasResponse(outcome) == outcome.kind = "response" /\ RaisesForStatus(outcome)

\* the body of the 500 answer of the except clause
ErrorBody(outcome, model_id) == [error |-> ExceptionText(outcome, model_id)]

\* the except clause: the events it logs
ErrorEvents(outcome, model_id) ==
    <<Event("request_logger", "ERROR",
            <<"ERROR in request to Databricks: ">> \o ExceptionText(outcome, model_id), <<>>)>>
    \o (IF HasResponse(outcome)
        THEN <<Event("request_logger", "ERROR", <<"Error Response Body: ", outcome.text>>, <<>>)>>
        ELSE <<>>)
    \o <<Event("root", "ERROR",
               <<"Error making request to Databricks API: ">> \o ExceptionText(outcome, model_id),
               <<>>)>>

\* the events logged before the POST
OutgoingEvents(model_id, databricks_request) ==
    <<Debug(<<"OUTGOING REQUEST - POST ">> \o InvocationsUrl(model_id), <<>>),
      Debug(<<"Outgoing Headers: ", "{'Authorization': 'Bearer [REDACTED]'}">>, <<>>),
      Debug(<<"Outgoing Body: ">>, <<databricks_request>>)>>

\* the event logged once raise_for_status has passed
ResponseStatusEvent(outcome) ==
    Debug(<<"RESPONSE from Databricks - Status Code: ", ToString(outcome.status_code)>>, <<>>)

ResponseBodyEvent(outcome) == Debug(<<"Response Body: ">>, outcome.json)

-----------------------------------------------------------------------------
(* Response translation *)

EmptyObject == <<>>

DefaultUsage == [prompt_tokens |-> 0, completion_tokens |-> 0, total_tokens |-> 0]

\* databricks_response.get("choices", [{}])
Choices(databricks_response) == Get(databricks_response, "choices", <<EmptyObject>>)

\* ...[0] raises IndexError on an empty list
FirstChoiceRaises(databricks_response) == Len(Choices(databricks_response)) = 0

FirstChoice(databricks_response) == Choices(databricks_response)[1]

\* databricks_response.get("choices", [{}])[0].get("message", {}).get("content", "")
Content(databricks_response) ==
    Get(Get(FirstChoice(databricks_response), "message", EmptyObject), "content", "")

\* databricks_response.get("choices", [{}])[0].get("finish_reason", "stop")
FinishReason(databricks_response) ==
    Get(FirstChoice(databricks_response), "finish_reason", "stop")

ResponseId(prefix, databricks_response) ==
    prefix \o Get(databricks_response, "id", "unknown")

\* the backend's usage dropped: the zero usage every time
UsageAlwaysDefault(databricks_response) == DefaultUsage

Usage(databricks_response) == Get(databricks_response, "usage", DefaultUsage)

ChatFormat(model_id, databricks_response, now) ==
    [id |-> ResponseId("chatcmpl-", databricks_response),
     object |-> "chat.completion",
     created |-> Get(databricks_response, "created", now),
     model |-> model_id,
     choices |-> <<[index |-> 0,
                    message |-> [role |-> "assistant",
                                 content |-> Content(databricks_response)],
                    finish_reason |-> FinishReason(databricks_response)]>>,
     usage |-> Usage(databricks_response)]

CompletionFormat(model_id, databricks_response, now) ==
    [id |-> ResponseId("cmpl-", databricks_response),
     object |-> "text_completion",
     created |-> Get(databricks_response, "created", now),
     model |-> model_id,
     choices |-> <<[text |-> Content(databricks_response),
                    index |-> 0,
                    logprobs |-> "None",
                    finish_reason |-> FinishReason(databricks_response)]>>,
     usage |-> Usage(databricks_response)]

-----------------------------------------------------------------------------
(* Request translation *)

\* the chat body built with the completion endpoint's max_tokens default and
\* without the stop sequences
ChatRequestNarrow(model_id, data) ==
    [model |-> model_id,
     max_tokens |-> Get(data, "max_tokens", DefaultCompletionMaxTokens),
     temperature |-> Get(data, "temperature", DefaultTemperature),
     top_p |-> Get(data, "top_p", DefaultTopP),
     messages |-> ProcessMessages(Get(data, "messages", <<>>))]

\* the outbound body of the chat endpoint
ChatRequest(model_id, data) ==
    [model |-> model_id,
     max_tokens |-> Get(data, "max_tokens", DefaultChatMaxTokens),
     temperature |-> Get(data, "temperature", DefaultTemperature),
     top_p |-> Get(data, "top_p", DefaultTopP),
     stop |-> Get(data, "stop", <<>>),
     messages |-> ProcessMessages(Get(data, "messages", <<>>))]

\* the completion body with the sampling parameters the handler computes
\* forwarded as well
CompletionRequestWithSampling(model_id, data) ==
    [messages |-> <<[role |-> "user", content |-> PromptText(Get(data, "prompt", Str("")))]>>,
     model |-> model_id,
     max_tokens |-> Get(data, "max_tokens", DefaultCompletionMaxTokens),
     temperature |-> Get(data, "temperature", DefaultTemperature),
     top_p |-> Get(data, "top_p", DefaultTopP),
     stop |-> Get(data, "stop", <<>>)]

\* the outbound body of the completion endpoint
CompletionRequest(model_id, data) ==
    [messages |-> <<[role |-> "user", content |-> PromptText(Get(data, "prompt", Str("")))]>>,
     model |-> model_id,
     max_tokens |-> Get(data, "max_tokens", DefaultCompletionMaxTokens)]

\* the events every POST handler logs on entry
IncomingEvents(path, data) ==
    <<Event("root", "INFO",
            <<"POST request to ", path, " with model: ", Get(data, "model", DEFAULT_MODEL)>>,
            <<>>),
      Debug(<<"INCOMING REQUEST - POST ", path>>, <<>>),
      Debug(<<"Request Headers: ">>, <<>>),
      Debug(<<"Request Body: ">>, <<data>>)>>

\* jsonify({"error": f"Model {model_id} not found"}), 404
ModelNotFound(events, model_id) ==
    Result(<<>>, events, 404, [error |-> <<"Model ", model_id, " not found">>])

-----------------------------------------------------------------------------
(* The handlers.  body is the inbound request body as request.json sees it, *)
(* outcome what the backend does with the outbound call if one is issued,   *)
(* now the wall clock.                                                      *)

\* a second attempt after a failed one
AttemptsWithRetry(model_id, databricks_request, outcome) ==
    IF outcome.kind \in {"connection_error", "timeout"}
    THEN <<Post(model_id, databricks_request), Post(model_id, databricks_request)>>
    ELSE <<Post(model_id, databricks_request)>>

\* the outbound calls of one pass through the try block: requests.post is
\* called once, whatever it comes back with
Attempts(model_id, databricks_request, outcome) ==
    <<Post(model_id, databricks_request)>>

\* the response in OpenAI format of the endpoint at path
Format(path, model_id, databricks_response, now) ==
    IF path = "/v1/chat/completions"
    THEN ChatFormat(model_id, databricks_response, now)
    ELSE CompletionFormat(model_id, databricks_response, now)

\* the try block of both POST handlers from the POST on: issue the call once,
\* then either the except clause, an escaped exception, or the translation
Forward(path, model_id, databricks_request, events, outcome, now) ==
    LET issued == Attempts(model_id, databricks_request, outcome)
        sent == events \o OutgoingEvents(model_id, databricks_request)
    IN IF PostFailed(outcome)
       THEN Result(issued, sent \o ErrorEvents(outcome, model_id),
                   500, ErrorBody(outcome, model_id))
       ELSE LET answered == Append(sent, ResponseStatusEvent(outcome))
            IN IF JsonRaises(outcome)
               THEN IF outcome.decode_error = "RequestException"
                    THEN Result(issued, answered \o ErrorEvents(outcome, model_id),
                                500, ErrorBody(outcome, model_id))
                    ELSE server_error(path, issued, answered)
               ELSE LET parsed == outcome.json[1]
                        read == Append(answered, ResponseBodyEvent(outcome))
                    IN IF parsed.py # "dict" THEN server_error(path, issued, read)
                       ELSE IF FirstChoiceRaises(parsed.d)
                       THEN server_error(path, issued, read)
                       ELSE Ok(issued, read, Format(path, model_id, parsed.d, now))

chat_completions(config, body, outcome, now) ==
    LET path == "/v1/chat/completions"
    IN IF body.py = "unparsable" THEN bad_request
       ELSE IF body.py # "dict" THEN server_error(path, <<>>, <<>>)
       ELSE LET data == body.d
                model_id == Get(data, "model", DEFAULT_MODEL)
                events == IncomingEvents(path, data)
            IN IF ~ModelKnown(config, model_id) THEN ModelNotFound(events, model_id)
               ELSE Forward(path, model_id, ChatRequest(model_id, data), events,
                            outcome, now)

completions(config, body, outcome, now) ==
    LET path == "/v1/completions"
    IN IF body.py = "unparsable" THEN bad_request
       ELSE IF body.py # "dict" THEN server_error(path, <<>>, <<>>)
       ELSE LET data == body.d
                model_id == Get(data, "model", DEFAULT_MODEL)
                events == IncomingEvents(path, data)
            IN IF ~ModelKnown(config, model_id) THEN ModelNotFound(events, model_id)
               ELSE Forward(path, model_id, CompletionRequest(model_id, data), events,
                            outcome, now)

embeddings(body) ==
    LET path == "/v1/embeddings"
    IN IF body.py = "unparsable" THEN bad_request
       ELSE IF body.py # "dict" THEN server_error(path, <<>>, <<>>)
       ELSE LET data == body.d
                model_id == Get(data, "model", DEFAULT_MODEL)
            IN Ok(<<>>, IncomingEvents(path, data),
                  [object |-> "list",
                   data |-> <<[object |-> "embedding",
                               embedding |-> [i \in 1..EmbeddingDim |-> 0],
                               index |-> 0]>>,
                   model |-> model_id,
                   usage |-> [prompt_tokens |-> 0, total_tokens |-> 0]])

get_models(config) ==
    Ok(<<>>,
       <<Event("root", "INFO", <<"GET request to /v1/models">>, <<>>),
         Debug(<<"GET /v1/models - Headers: ">>, <<>>)>>,
       [data |-> [i \in DOMAIN config.keys |-> config.models[config.keys[i]]],
        object |-> "list"])

healthcheck ==
    Ok(<<>>, <<Debug(<<"GET /healthcheck - Headers: ">>, <<>>)>>, [status |-> "ok"])

-----------------------------------------------------------------------------
(* The inputs: inbound requests, backend outcomes, the clock *)

TextPart(text) == Dict([type |-> "text", text |-> text])
ImagePart == Dict([type |-> "image_url", image_url |-> "http://img"])

\* the model ids a client asks for: the configurable ones and one that is
\* never configured
RequestedIds == ConfigurableIds \cup {"ghost-model"}

MessageSamples ==
    {[role |-> "user", content |-> Str("Hello")],
     [role |-> "system", content |-> List(<<TextPart("A"), ImagePart, TextPart("B")>>)]}

PromptSamples ==
    {Str("Say hi"), List(<<TextPart("A"), ImagePart, TextPart("B")>>), List(<<>>)}

\* the sampling fields, each supplied or not
SamplingFields ==
    {Field("max_tokens", mt) @@ Field("temperature", t) @@ Field("top_p", p) @@ Field("stop", st) :
        mt \in Optional({100}), t \in Optional({"0.2"}),
        p \in Optional({"0.9"}), st \in Optional({<<"END">>})}

\* request.json of a body that is JSON but no object, and of one that is not JSON
NonObjectBodies == {List(<<>>), [py |-> "unparsable"]}

ChatBodies ==
    {Dict(Field("model", m) @@ Field("messages", ms) @@ sf) :
        m \in Optional(RequestedIds),
        ms \in Optional(SeqsUpTo(MessageSamples, MaxMessages)),
        sf \in SamplingFields}
    \cup NonObjectBodies

CompletionBodies ==
    {Dict(Field("model", m) @@ Field("prompt", pr) @@ sf) :
        m \in Optional(RequestedIds), pr \in Optional(PromptSamples), sf \in SamplingFields}
    \cup NonObjectBodies

EmbeddingBodies ==
    {Dict(Field("model", m) @@ Field("input", i)) :
        m \in Optional(RequestedIds), i \in Optional({"some text"})}
    \cup NonObjectBodies

\* the first choice of a backend body: message, message.content and
\* finish_reason each present or not
ChoiceSamples ==
    {Field("message", msg) @@ Field("finish_reason", fr) :
        msg \in Optional({Field("content", c) : c \in Optional({"Hi there"})}),
        fr \in Optional({"length"})}

\* the JSON objects a backend answers with: every field present or not, and
\* choices also present but empty
BackendBodies ==
    {Field("id", id) @@ Field("created", cr) @@ Field("choices", ch) @@ Field("usage", us) :
        id \in Optional({"x1"}),
        cr \in Optional({1600000000}),
        ch \in Optional({<<>>} \cup {<<c>> : c \in ChoiceSamples}),
        us \in Optional({[prompt_tokens |-> 1, completion_tokens |-> 2, total_tokens |-> 3]})}

RawErrorBody == "{\"error_code\": \"upstream detail\"}"

NoOutcome == [kind |-> "none"]

Outcomes ==
    {[kind |-> "connection_error"], [kind |-> "timeout"]}
    \cup {HttpResponse(200, "OK", "<json>", <<Dict(b)>>, "none") : b \in BackendBodies}
    \cup {HttpResponse(200, "OK", "[]", <<List(<<>>)>>, "none")}
    \cup {HttpResponse(200, "OK", "<html>", <<>>, e) : e \in {"RequestException", "ValueError"}}
    \cup {HttpResponse(300, "Multiple Choices", "{}", <<Dict(EmptyObject)>>, "none")}
    \cup {HttpResponse(404, "Not Found", RawErrorBody, <<>>, "none"),
          HttpResponse(500, "Internal Server Error", RawErrorBody, <<>>, "none")}

Clock == {1700000000}

NoRequest == [method |-> "none", path |-> "none", body |-> [py |-> "none"]]
NoResponse == [status |-> 0, body |-> EmptyObject]
NoViewer == [stage |-> "none"]

-----------------------------------------------------------------------------
(* The state machine *)

Init ==
    /\ \E available \in AvailableModelLists : CONFIG = BuildConfig(available)
    /\ request = NoRequest
    /\ backend = NoOutcome
    /\ calls = <<>>
    /\ log = <<>>
    /\ response = NoResponse
    /\ viewer = NoViewer

Idle == request.method = "none"

\* a worker that is free takes a request and runs its handler to the return:
\* what the handler leaves behind becomes the state
Answer(method, path, body, outcome, result) ==
    /\ request' = [method |-> method, path |-> path, body |-> body]
    /\ backend' = IF Len(result.calls) = 0 THEN NoOutcome ELSE outcome
    /\ calls' = result.calls
    /\ log' = result.log
    /\ response' = result.response
    /\ UNCHANGED <<CONFIG, viewer>>

\* the response has gone to the client: nothing of the request is kept, and
\* the worker is free for the next one
Deliver ==
    /\ ~Idle
    /\ request' = NoRequest
    /\ backend' = NoOutcome
    /\ calls' = <<>>
    /\ log' = <<>>
    /\ response' = NoResponse
    /\ UNCHANGED <<CONFIG, viewer>>

GetModels ==
    Idle /\ Answer("GET", "/v1/models", [py |-> "none"], NoOutcome, get_models(CONFIG))

ChatCompletions ==
    Idle /\ \E body \in ChatBodies, outcome \in Outcomes, now \in Clock :
        Answer("POST", "/v1/chat/completions", body, outcome,
               chat_completions(CONFIG, body, outcome, now))

Completions ==
    Idle /\ \E body \in CompletionBodies, outcome \in Outcomes, now \in Clock :
        Answer("POST", "/v1/completions", body, outcome,
               completions(CONFIG, body, outcome, now))

Embeddings ==
    Idle /\ \E body \in EmbeddingBodies :
        Answer("POST", "/v1/embeddings", body, NoOutcome, embeddings(body))

Healthcheck ==
    Idle /\ Answer("GET", "/healthcheck", [py |-> "none"], NoOutcome, healthcheck)

UnmatchedRoute ==
    Idle /\ \E path \in {"/", "/v1/engines"} :
        Answer("GET", path, [py |-> "none"], NoOutcome, not_found)

Next ==
    \/ GetModels
    \/ ChatCompletions
    \/ Completions
    \/ Embeddings
    \/ Healthcheck
    \/ UnmatchedRoute
    \/ Deliver

Spec == Init /\ [][Next]_vars

-----------------------------------------------------------------------------
(* The normalizer on its own: one-message chat requests and completion     *)
(* requests over every content list of up to MaxParts parts                *)

PartSamples ==
    {TextPart("A"), TextPart("B"),
     Dict([type |-> "text"]),
     ImagePart,
     Dict([text |-> "C"]),
     Str("raw")}

Contents == {Str("Hello"), Str("")} \cup {List(items) : items \in SeqsUpTo(PartSamples, MaxParts)}

NormOutcomes ==
    {[kind |-> "timeout"],
     HttpResponse(200, "OK", "<json>", <<Dict(EmptyObject)>>, "none")}

NormInit ==
    /\ CONFIG = BuildConfig(<<DEFAULT_MODEL>>)
    /\ request = NoRequest
    /\ backend = NoOutcome
    /\ calls = <<>>
    /\ log = <<>>
    /\ response = NoResponse
    /\ viewer = NoViewer

NormChat ==
    Idle /\ \E content \in Contents, role \in {"user", "system"},
               outcome \in NormOutcomes, now \in Clock :
        LET body == Dict([messages |-> <<[role |-> role, content |-> content]>>])
        IN Answer("POST", "/v1/chat/completions", body, outcome,
                  chat_completions(CONFIG, body, outcome, now))

NormCompletion ==
    Idle /\ \E prompt \in Contents, outcome \in NormOutcomes, now \in Clock :
        LET body == Dict([prompt |-> prompt])
        IN Answer("POST", "/v1/completions", body, outcome,
                  completions(CONFIG, body, outcome, now))

NormNext ==
    \/ NormChat
    \/ NormCompletion
    \/ Deliver

SpecNorm == NormInit /\ [][NormNext]_vars

-----------------------------------------------------------------------------
(* Vocabulary of the properties *)

ChatPath == "/v1/chat/completions"
CompletionPath == "/v1/completions"

IsForwardingPath == request.path \in {ChatPath, CompletionPath}

\* the request being answered carries a JSON object
HasObjectBody == request.body.py = "dict"

\* the model id the request being answered names (the default when it names none)
RequestedModel == Get(request.body.d, "model", DEFAULT_MODEL)

Registered(model_id) == model_id \in DOMAIN CONFIG.models

\* the backend failed the call: no answer, or an answer outside 2xx
BackendAnswered == backend.kind = "response"
Is2xx == BackendAnswered /\ backend.status_code >= 200 /\ backend.status_code < 300
BackendFailed ==
    \/ backend.kind \in {"connection_error", "timeout"}
    \/ BackendAnswered /\ ~Is2xx

-----------------------------------------------------------------------------
(* C1 *)

\* C1: a chat or completion request naming a model id that is no key of the
\* registry is answered 404 with an error text containing that id and without
\* any outbound call; the list GET /v1/models returns names registry keys only.
C1_UnknownModelRejected ==
    /\ (IsForwardingPath /\ HasObjectBody /\ "model" \in DOMAIN request.body.d
            /\ ~Registered(request.body.d["model"]))
        => /\ response.status = 404
           /\ DOMAIN response.body = {"error"}
           /\ request.body.d["model"] \in Range(response.body.error)
           /\ calls = <<>>
           /\ backend = NoOutcome
    /\ request.path = "/v1/models"
        => /\ response.status = 200
           /\ \A i \in DOMAIN response.body.data : Registered(response.body.data[i].id)
           /\ \A id \in RequestedIds \ DOMAIN CONFIG.models :
                 \A i \in DOMAIN response.body.data : response.body.data[i].id # id

C1_Witness ==
    /\ request.path = ChatPath
    /\ HasObjectBody
    /\ "model" \in DOMAIN request.body.d
    /\ request.body.d["model"] = "ghost-model"
    /\ response.status = 404

-----------------------------------------------------------------------------
(* C2 *)

\* C2: no request is answered with more than one outbound call; a chat or
\* completion request with a registered model issues exactly one POST, also
\* when that call fails; /v1/models, /v1/embeddings and /healthcheck issue none.
C2_AtMostOneCall ==
    /\ Len(calls) <= 1
    /\ (IsForwardingPath /\ HasObjectBody /\ Registered(RequestedModel))
        => /\ Len(calls) = 1
           /\ calls[1].method = "POST"
           /\ backend # NoOutcome
    /\ request.path \in {"/v1/models", "/v1/embeddings", "/healthcheck"}
        => calls = <<>>

C2_Witness ==
    /\ request.path = CompletionPath
    /\ backend.kind = "timeout"
    /\ Len(calls) = 1
    /\ response.status = 500

-----------------------------------------------------------------------------
(* C3 *)

\* the backend answered 2xx with a JSON object
Answered2xxObject ==
    /\ Len(calls) = 1
    /\ Is2xx
    /\ Len(backend.json) = 1
    /\ backend.json[1].py = "dict"

BackendBody == backend.json[1].d

\* the text of the first choice of the response returned to the client
ReturnedText ==
    IF request.path = ChatPath
    THEN response.body.choices[1].message.content
    ELSE response.body.choices[1].text

\* C3: a 2xx backend body whose choices is present and empty is answered with
\* a successful response whose first choice has finish_reason "stop" and empty
\* content/text, never with an error response.
C3_EmptyChoicesDefaulted ==
    (Answered2xxObject /\ "choices" \in DOMAIN BackendBody /\ Len(BackendBody["choices"]) = 0)
        => /\ response.status = 200
           /\ response.body.choices[1].finish_reason = "stop"
           /\ ReturnedText = ""

-----------------------------------------------------------------------------
(* C4 *)

\* the first choice of the backend body when choices is present, the empty
\* object when choices is absent
GivenChoice == IF "choices" \in DOMAIN BackendBody THEN BackendBody["choices"][1] ELSE EmptyObject

\* C4: for every 2xx backend body in which any of id, choices,
\* choices[0].message, choices[0].message.content, choices[0].finish_reason and
\* usage is absent as a key, the response is 200 and each absent field takes
\* its default (id "unknown" behind the endpoint's prefix, content/text "",
\* finish_reason "stop", usage all zero) while each present field is passed
\* through unchanged.
C4_AbsentFieldsDefaulted ==
    (Answered2xxObject
        /\ ("choices" \in DOMAIN BackendBody => Len(BackendBody["choices"]) > 0))
        => /\ response.status = 200
           /\ response.body.id =
                (IF request.path = ChatPath THEN "chatcmpl-" ELSE "cmpl-")
                \o (IF "id" \in DOMAIN BackendBody THEN BackendBody["id"] ELSE "unknown")
           /\ Len(response.body.choices) = 1
           /\ ReturnedText =
                (IF "message" \in DOMAIN GivenChoice
                     /\ "content" \in DOMAIN GivenChoice["message"]
                 THEN GivenChoice["message"]["content"] ELSE "")
           /\ response.body.choices[1].finish_reason =
                (IF "finish_reason" \in DOMAIN GivenChoice
                 THEN GivenChoice["finish_reason"] ELSE "stop")
           /\ response.body.usage =
                (IF "usage" \in DOMAIN BackendBody THEN BackendBody["usage"]
                 ELSE [prompt_tokens |-> 0, completion_tokens |-> 0, total_tokens |-> 0])

C4_Witness ==
    /\ Answered2xxObject
    /\ request.path = CompletionPath
    /\ DOMAIN BackendBody = {"choices", "usage"}
    /\ Len(BackendBody["choices"]) = 1
    /\ DOMAIN BackendBody["choices"][1] = {"message"}
    /\ DOMAIN BackendBody["choices"][1]["message"] = {}
    /\ response.status = 200
    /\ response.body.id = "cmpl-unknown"
    /\ response.body.usage.total_tokens = 3

-----------------------------------------------------------------------------
(* The normalized text of a content value, stated apart from the handlers *)

IsTextPart(item) ==
    /\ item.py = "dict"
    /\ "type" \in DOMAIN item.d
    /\ item.d["type"] = "text"

TextOf(item) == IF "text" \in DOMAIN item.d THEN item.d["text"] ELSE ""

\* the texts of parts 1..n joined by newline, built from the end
RECURSIVE JoinedTexts(_, _)
JoinedTexts(parts, n) ==
    IF n = 0 THEN ""
    ELSE IF n = 1 THEN TextOf(parts[1])
    ELSE JoinedTexts(parts, n - 1) \o "\n" \o TextOf(parts[n])

Normalized(content) ==
    IF content.py = "list"
    THEN LET parts == SelectSeq(content.items, IsTextPart)
         IN Str(JoinedTexts(parts, Len(parts)))
    ELSE content

-----------------------------------------------------------------------------
(* C5 *)

\* C5: the outbound body of the completion endpoint has exactly the keys
\* messages, model and max_tokens, whatever temperature, top_p and stop the
\* inbound request supplies; messages is one user message whose content is the
\* normalized prompt, and max_tokens the inbound value, or 256 when absent.
C5_CompletionBodyKeys ==
    (request.path = CompletionPath /\ Len(calls) > 0)
        => LET sent == calls[1].json
               data == request.body.d
           IN /\ DOMAIN sent = {"messages", "model", "max_tokens"}
              /\ Len(sent.messages) = 1
              /\ DOMAIN sent.messages[1] = {"role", "content"}
              /\ sent.messages[1].role = "user"
              /\ sent.messages[1].content =
                    (IF "prompt" \in DOMAIN data THEN Normalized(data["prompt"]) ELSE Str(""))
              /\ sent.max_tokens =
                    (IF "max_tokens" \in DOMAIN data THEN data["max_tokens"] ELSE 256)

C5_Witness ==
    /\ request.path = CompletionPath
    /\ Len(calls) = 1
    /\ {"temperature", "top_p", "stop", "prompt"} \subseteq DOMAIN request.body.d
    /\ "max_tokens" \notin DOMAIN request.body.d
    /\ request.body.d["prompt"].py = "list"
    /\ calls[1].json.messages[1].content = Str("A\nB")
    /\ calls[1].json.max_tokens = 256

-----------------------------------------------------------------------------
(* C6 *)

\* C6: the outbound body of the chat endpoint has exactly the keys model,
\* messages, max_tokens, temperature, top_p and stop; model is the validated
\* inbound id, each sampling field the inbound value or its default (2048,
\* 0.7, 1.0, empty), and messages keeps the length, order and roles of the
\* inbound messages with only content normalized.
C6_ChatBodyCarriedOver ==
    (request.path = ChatPath /\ Len(calls) > 0)
        => LET sent == calls[1].json
               data == request.body.d
               inbound == IF "messages" \in DOMAIN data THEN data["messages"] ELSE <<>>
           IN /\ DOMAIN sent = {"model", "messages", "max_tokens", "temperature", "top_p", "stop"}
              /\ sent.model = RequestedModel
              /\ Registered(sent.model)
              /\ sent.max_tokens =
                    (IF "max_tokens" \in DOMAIN data THEN data["max_tokens"] ELSE 2048)
              /\ sent.temperature =
                    (IF "temperature" \in DOMAIN data THEN data["temperature"] ELSE "0.7")
              /\ sent.top_p = (IF "top_p" \in DOMAIN data THEN data["top_p"] ELSE "1.0")
              /\ sent.stop = (IF "stop" \in DOMAIN data THEN data["stop"] ELSE <<>>)
              /\ Len(sent.messages) = Len(inbound)
              /\ \A i \in DOMAIN inbound :
                    /\ DOMAIN sent.messages[i] = DOMAIN inbound[i]
                    /\ sent.messages[i].role = inbound[i].role
                    /\ sent.messages[i].content = Normalized(inbound[i].content)

C6_Witness ==
    /\ request.path = ChatPath
    /\ Len(calls) = 1
    /\ "messages" \in DOMAIN request.body.d
    /\ Len(request.body.d["messages"]) = 2
    /\ request.body.d["messages"][1].role = "system"
    /\ request.body.d["messages"][2].role = "user"
    /\ DOMAIN request.body.d = {"messages", "top_p"}
    /\ calls[1].json.stop = <<>>
    /\ calls[1].json.max_tokens = 2048
    /\ calls[1].json.top_p = "0.9"

-----------------------------------------------------------------------------
(* C7 *)

\* the content the client sent and the content that went out for it
ContentIn ==
    IF request.path = ChatPath THEN request.body.d["messages"][1].content
    ELSE request.body.d["prompt"]

ContentOut == calls[1].json.messages[1].content

\* C7: normalization, on a chat message's content and on the completion
\* prompt alike, returns a plain string unchanged (and so changes nothing when
\* applied again), and turns a sequence into the text fields of exactly the
\* mappings tagged type "text" ("" for a missing text field), in order, joined
\* by newline, skipping every other element, "" when there is no text part;
\* every outbound message's content is a single string.
C7_ContentNormalized ==
    (IsForwardingPath /\ Len(calls) > 0)
        => /\ \A i \in DOMAIN calls[1].json.messages :
                 calls[1].json.messages[i].content.py = "str"
           /\ ContentIn.py = "str" => ContentOut = ContentIn
           /\ ContentIn.py = "list" =>
                 LET parts == SelectSeq(ContentIn.items, IsTextPart)
                 IN /\ ContentOut = Str(JoinedTexts(parts, Len(parts)))
                    /\ Len(parts) = 0 => ContentOut = Str("")
           /\ PromptText(ContentOut) = ContentOut
           /\ ProcessMessage(calls[1].json.messages[1]) = calls[1].json.messages[1]

C7_Witness ==
    /\ request.path = ChatPath
    /\ Len(calls) = 1
    /\ ContentIn = List(<<Dict([text |-> "C"]), TextPart("B"), Dict([type |-> "text"])>>)
    /\ ContentOut = Str("B\n")

-----------------------------------------------------------------------------
(* C8 *)

\* C8: when the outbound call fails (no connection, timeout, or an answer
\* outside 2xx) the response is 500 with the exception text as its only field,
\* and the backend's raw error body is logged and is no part of the response.
C8_BackendFailureSanitized ==
    (IsForwardingPath /\ Len(calls) = 1 /\ BackendFailed)
        => /\ response.status = 500
           /\ DOMAIN response.body = {"error"}
           /\ BackendAnswered =>
                 /\ backend.text \notin Range(response.body.error)
                 /\ \E i \in DOMAIN log : backend.text \in Range(log[i].message)

-----------------------------------------------------------------------------
(* C9 *)

IsErrorResponse == response.status \in {404, 500}

\* C9: whenever an error response is returned (unknown model 404, backend
\* failure 500, server fault 500, unmatched route 404) the log already holds
\* an event with the failure detail, and for a failed backend answer the
\* logged detail includes the upstream body.
C9_ErrorsLoggedFirst ==
    IsErrorResponse
        => /\ \E i \in DOMAIN log : log[i].level = "ERROR"
           /\ (Len(calls) = 1 /\ BackendAnswered /\ RaisesForStatus(backend))
                 => \E i \in DOMAIN log : backend.text \in Range(log[i].message)

-----------------------------------------------------------------------------
(* C10 *)

\* C10: POST /v1/embeddings is answered 200 whatever the body (an object, any
\* other JSON value, no JSON at all) and whatever the model id: the requested
\* id echoed, one embedding of 1536 zeros, no outbound call.
C10_EmbeddingsAlwaysOk ==
    request.path = "/v1/embeddings"
        => /\ calls = <<>>
           /\ response.status = 200
           /\ Len(response.body.data) = 1
           /\ Len(response.body.data[1].embedding) = 1536
           /\ \A i \in DOMAIN response.body.data[1].embedding :
                 response.body.data[1].embedding[i] = 0
           /\ HasObjectBody => response.body.model = RequestedModel

-----------------------------------------------------------------------------
(* C14 *)

\* C14: every outbound call goes to {base_url}/{model_id}/invocations for a
\* model_id that is a key of the registry, and a returned translation carries
\* that id as its model; a request that names no model is treated as naming
\* the fixed default id, so it is answered 404 whenever the registry does not
\* hold the default id.
C14_CallsTargetRegisteredModel ==
    /\ \A i \in DOMAIN calls :
          /\ \E model_id \in DOMAIN CONFIG.models :
                calls[i].url = <<BASE_URL, "/", model_id, "/invocations">>
          /\ calls[i].url[3] = RequestedModel
          /\ response.status = 200 => response.body.model = calls[i].url[3]
    /\ (IsForwardingPath /\ HasObjectBody /\ "model" \notin DOMAIN request.body.d)
          => IF DEFAULT_MODEL \in DOMAIN CONFIG.models
             THEN Len(calls) = 1 /\ calls[1].url[3] = DEFAULT_MODEL
             ELSE response.status = 404 /\ calls = <<>>

C14_Witness ==
    /\ request.path = CompletionPath
    /\ HasObjectBody
    /\ "model" \notin DOMAIN request.body.d
    /\ DOMAIN CONFIG.models = {"model-a"}
    /\ response.status = 404
    /\ DEFAULT_MODEL \in Range(response.body.error)

-----------------------------------------------------------------------------
(* The log viewer of src/view_logs.py: strings are read character by       *)
(* character                                                               *)

Digits == {"0", "1", "2", "3", "4", "5", "6", "7", "8", "9"}

\* the characters \w matches
WordChars ==
    Digits \cup {"_"}
    \cup {"A", "B", "C", "D", "E", "F", "G", "H", "I", "J", "K", "L", "M",
          "N", "O", "P", "Q", "R", "S", "T", "U", "V", "W", "X", "Y", "Z"}
    \cup {"a", "b", "c", "d", "e", "f", "g", "h", "i", "j", "k", "l", "m",
          "n", "o", "p", "q", "r", "s", "t", "u", "v", "w", "x", "y", "z"}

\* text[i-1:j], which Python cuts off at the end of the text
Slice(text, i, j) ==
    IF i > Len(text) \/ j < i THEN ""
    ELSE SubSeq(text, i, IF j < Len(text) THEN j ELSE Len(text))

CharAt(text, i) == Slice(text, i, i)

\* text[i-1:]
From(text, i) == Slice(text, i, Len(text))

\* text.startswith(prefix)
StartsWith(text, prefix) ==
    Len(text) >= Len(prefix) /\ SubSeq(text, 1, Len(prefix)) = prefix

\* text.find(sep) from position i on: the position of the first occurrence,
\* 0 when there is none
Find(text, sep, i) ==
    LET found == {k \in i..(Len(text) - Len(sep) + 1) :
                     SubSeq(text, k, k + Len(sep) - 1) = sep}
    IN IF found = {} THEN 0
       ELSE CHOOSE k \in found : \A other \in found : k <= other

\* text.split(sep)
RECURSIVE Split(_, _)
Split(text, sep) ==
    LET at == Find(text, sep, 1)
    IN IF at = 0 THEN <<text>>
       ELSE <<Slice(text, 1, at - 1)>> \o Split(From(text, at + Len(sep)), sep)

\* the end of the longest run of \w characters that starts at position i
\* (i - 1 when there is none)
RECURSIVE WordEnd(_, _)
WordEnd(text, i) ==
    IF i <= Len(text) /\ CharAt(text, i) \in WordChars THEN WordEnd(text, i + 1)
    ELSE i - 1

\* the shape \d{4}-\d{2}-\d{2} \d{2}:\d{2}:\d{2},\d{3} of the first 23 characters
TimestampShape == <<"d", "d", "d", "d", "-", "d", "d", "-", "d", "d", " ",
                    "d", "d", ":", "d", "d", ":", "d", "d", ",", "d", "d", "d">>

MatchesTimestamp(line) ==
    /\ Len(line) >= Len(TimestampShape)
    /\ \A i \in DOMAIN TimestampShape :
          IF TimestampShape[i] = "d" THEN CharAt(line, i) \in Digits
          ELSE CharAt(line, i) = TimestampShape[i]

None == [none |-> TRUE]

\* re.match(r'(timestamp) - (\w+) - (.*)', line): None, or the three groups
parse_log_line(line) ==
    LET stamp == Len(TimestampShape)
        word == stamp + 4
        last == WordEnd(line, word)
    IN IF /\ MatchesTimestamp(line)
          /\ Slice(line, stamp + 1, stamp + 3) = " - "
          /\ last >= word
          /\ Slice(line, last + 1, last + 3) = " - "
       THEN [timestamp |-> Slice(line, 1, stamp),
             level |-> Slice(line, word, last),
             message |-> From(line, last + 4)]
       ELSE None

IsNone(value) == "none" \in DOMAIN value

\* the state of the loop of group_request_logs before any line
NoGroups == [requests |-> <<>>, current_request |-> None, raised |-> FALSE]

\* one pass of the loop body; message.split(' - ')[1] raises IndexError when
\* the message holds no ' - '
GroupLine(acc, line_data) ==
    IF acc.raised \/ IsNone(line_data) THEN acc
    ELSE LET message == line_data.message
             starts == StartsWith(message, "INCOMING REQUEST")
             parts == Split(message, " - ")
         IN IF starts /\ Len(parts) < 2 THEN [acc EXCEPT !.raised = TRUE]
            ELSE LET opened ==
                         IF starts
                         THEN [requests |-> IF IsNone(acc.current_request)
                                            THEN acc.requests
                                            ELSE Append(acc.requests, acc.current_request),
                               current_request |-> [timestamp |-> line_data.timestamp,
                                                    type |-> parts[2],
                                                    details |-> <<>>],
                               raised |-> FALSE]
                         ELSE acc
                 IN IF IsNone(opened.current_request) THEN opened
                    ELSE [opened EXCEPT
                            !.current_request.details = Append(@, line_data)]

RECURSIVE GroupLines(_, _)
GroupLines(log_lines, n) ==
    IF n = 0 THEN NoGroups
    ELSE GroupLine(GroupLines(log_lines, n - 1), log_lines[n])

\* the list of requests returned, or the exception that escapes
group_request_logs(log_lines) ==
    LET acc == GroupLines(log_lines, Len(log_lines))
    IN IF acc.raised THEN [raised |-> "IndexError", requests |-> <<>>]
       ELSE [raised |-> "none",
             requests |-> IF IsNone(acc.current_request) THEN acc.requests
                          ELSE Append(acc.requests, acc.current_request)]

\* text.replace(old, new)
RECURSIVE Replace(_, _, _)
Replace(text, old, new) ==
    LET at == Find(text, old, 1)
    IN IF at = 0 THEN text
       ELSE Slice(text, 1, at - 1) \o new \o Replace(From(text, at + Len(old)), old, new)

\* one labeled section of the output: the label printed, the way its text is
\* rendered (as it is, through format_json, or as evaluated headers) and the
\* text handed to that rendering
Section(label, render, text) == [label |-> label, render |-> render, text |-> text]

\* the state of the loop of display_request before any detail line
NothingShown ==
    [printed |-> <<>>, has_request_headers |-> FALSE, has_request_body |-> FALSE,
     has_outgoing_request |-> FALSE, has_response |-> FALSE, has_error |-> FALSE,
     raised |-> FALSE]

\* one pass of the loop body: the first branch of the if/elif chain whose
\* condition holds
DisplayDetail(acc, detail, verbose) ==
    LET message == detail.message
        level == detail.level
        parts == Split(message, " - ")
        Show(label, render, text) == Append(acc.printed, Section(label, render, text))
    IN IF acc.raised THEN acc
       ELSE IF StartsWith(message, "Request Headers:")
       THEN [acc EXCEPT !.has_request_headers = TRUE,
                        !.printed = IF verbose
                                    THEN Show("REQUEST HEADERS:", "headers",
                                              Replace(message, "Request Headers: ", ""))
                                    ELSE @]
       ELSE IF StartsWith(message, "Request Body:")
       THEN [acc EXCEPT !.has_request_body = TRUE,
                        !.printed = Show("REQUEST BODY:", "format_json",
                                         Replace(message, "Request Body: ", ""))]
       ELSE IF StartsWith(message, "OUTGOING REQUEST")
       THEN IF Len(parts) < 2
            THEN [acc EXCEPT !.has_outgoing_request = TRUE,
                             !.printed = Show("OUTGOING REQUEST:", "raised", ""),
                             !.raised = TRUE]
            ELSE [acc EXCEPT !.has_outgoing_request = TRUE,
                             !.printed = Show("OUTGOING REQUEST:", "plain", parts[2])]
       ELSE IF StartsWith(message, "Outgoing Headers:")
       THEN [acc EXCEPT !.printed = IF verbose
                                    THEN Show("OUTGOING HEADERS:", "plain",
                                              Replace(message, "Outgoing Headers: ", ""))
                                    ELSE @]
       ELSE IF StartsWith(message, "Outgoing Body:")
       THEN [acc EXCEPT !.printed = Show("OUTGOING BODY:", "format_json",
                                         Replace(message, "Outgoing Body: ", ""))]
       ELSE IF StartsWith(message, "RESPONSE from Databricks")
       THEN IF Len(parts) < 2
            THEN [acc EXCEPT !.has_response = TRUE,
                             !.printed = Show("RESPONSE:", "raised", ""),
                             !.raised = TRUE]
            ELSE [acc EXCEPT !.has_response = TRUE,
                             !.printed = Show("RESPONSE:", "plain", parts[2])]
       ELSE IF StartsWith(message, "Response Body:")
       THEN [acc EXCEPT !.printed = Show("RESPONSE BODY:", "format_json",
                                         Replace(message, "Response Body: ", ""))]
       ELSE IF level = "ERROR" \/ StartsWith(message, "ERROR")
       THEN [acc EXCEPT !.has_error = TRUE,
                        !.printed = Show("ERROR:", "plain", message)]
       ELSE IF StartsWith(message, "Error Response Body:")
       THEN [acc EXCEPT !.printed = Show("ERROR RESPONSE BODY:", "format_json",
                                         Replace(message, "Error Response Body: ", ""))]
       ELSE acc

RECURSIVE DisplayDetails(_, _, _)
DisplayDetails(details, n, verbose) ==
    IF n = 0 THEN NothingShown
    ELSE DisplayDetail(DisplayDetails(details, n - 1, verbose), details[n], verbose)

\* what display_request prints: the banner, the sections, and the closing
\* summary unless an exception escaped the loop before it
display_request(req, verbose) ==
    LET acc == DisplayDetails(req.details, Len(req.details), verbose)
    IN [banner |-> [type |-> req.type, timestamp |-> req.timestamp],
        sections |-> acc.printed,
        raised |-> IF acc.raised THEN "IndexError" ELSE "none",
        summary |-> IF acc.raised THEN <<>>
                    ELSE <<[type |-> req.type,
                            timestamp |-> req.timestamp,
                            request_body |-> acc.has_request_body,
                            forwarded |-> acc.has_outgoing_request,
                            response |-> acc.has_response,
                            errors |-> IF acc.has_error THEN "Yes" ELSE "No"]>>]

\* the displays of the first n requests, up to the first that raises
RECURSIVE DisplayRequests(_, _, _)
DisplayRequests(requests, n, verbose) ==
    IF n = 0 THEN <<>>
    ELSE LET before == DisplayRequests(requests, n - 1, verbose)
         IN IF before # <<>> /\ before[Len(before)].raised # "none" THEN before
            ELSE Append(before, display_request(requests[n], verbose))

\* any(d['level'] == 'ERROR' for d in r['details'])
AnyErrorLevel(r) == \E i \in DOMAIN r.details : r.details[i].level = "ERROR"

\* requests[-n:]
LastN(requests, n) ==
    IF n >= Len(requests) THEN requests
    ELSE SubSeq(requests, Len(requests) - n + 1, Len(requests))

\* a run of the viewer: the exit status, the exception that ended it if any
\* and the function it escaped from, what the grouper returned, the requests
\* left by the filter and the limit, the notice printed and the requests displayed
Run(exit, raised, where, requests, selected, notice, shown) ==
    [exit |-> exit, raised |-> raised, where |-> where, requests |-> requests,
     selected |-> selected, notice |-> notice, shown |-> shown]

\* main(): file is <<>> when args.file does not exist, else <<its lines>>
main(file, args) ==
    IF file = <<>>
    THEN Run(1, "none", "none", <<>>, <<>>,
             <<"Error: Log file '", "api_requests.log", "' not found.">>, <<>>)
    ELSE LET lines == file[1]
             log_lines == [i \in DOMAIN lines |-> parse_log_line(lines[i])]
             grouped == group_request_logs(log_lines)
             filtered == IF args.errors
                         THEN SelectSeq(grouped.requests, AnyErrorLevel)
                         ELSE grouped.requests
             limited == IF args.num # <<>> /\ args.num[1] > 0
                        THEN LastN(filtered, args.num[1])
                        ELSE filtered
             shown == DisplayRequests(limited, Len(limited), args.verbose)
         IN IF grouped.raised # "none"
            THEN Run(1, grouped.raised, "group_request_logs", <<>>, <<>>, <<>>, <<>>)
            ELSE IF limited = <<>>
            THEN Run(0, "none", "none", grouped.requests, limited,
                     <<"No matching requests found in the log file.">>, <<>>)
            ELSE IF shown[Len(shown)].raised # "none"
            THEN Run(1, shown[Len(shown)].raised, "display_request", grouped.requests,
                     limited,
                     <<"Found ", ToString(Len(limited)), " requests in log file">>, shown)
            ELSE Run(0, "none", "none", grouped.requests, limited,
                     <<"Found ", ToString(Len(limited)), " requests in log file">>, shown)

-----------------------------------------------------------------------------
(* The viewer run over log files *)

MaxLines == 3

Timestamp == "2025-01-02 03:04:05,678"

\* the root logger of the gateway is named after its module
LoggerName(logger) == IF logger = "root" THEN "__main__" ELSE logger

\* the line a handler of the gateway writes for an event: request_logger
\* writes asctime - levelname - message, the others write the logger name too
FormatLine(asctime, event) ==
    IF event.logger = "request_logger"
    THEN asctime \o " - " \o event.level \o " - " \o Join("", event.message)
    ELSE asctime \o " - " \o LoggerName(event.logger) \o " - " \o event.level
         \o " - " \o Join("", event.message)

\* the lines the gateway writes when the backend answers 500
FailureLines ==
    {FormatLine(Timestamp, event) :
        event \in Range(ErrorEvents(HttpResponse(500, "Internal Server Error",
                                                 RawErrorBody, <<>>, "none"),
                                    DEFAULT_MODEL))}

LineSamples ==
    FailureLines
    \cup {FormatLine(Timestamp, Debug(<<"INCOMING REQUEST - POST ", CompletionPath>>, <<>>)),
          FormatLine(Timestamp, Debug(<<"Request Headers: ", "{}">>, <<>>)),
          Timestamp \o " - DEBUG - INCOMING REQUEST",
          Timestamp \o " - ERROR - Response Body: {}",
          "  \"model\": \"model-a\""}

LogFiles == Optional(SeqsUpTo(LineSamples, MaxLines))

Arguments == [errors : BOOLEAN, verbose : BOOLEAN, num : Optional({0, 1})]

LogsInit ==
    /\ CONFIG = BuildConfig(<<DEFAULT_MODEL>>)
    /\ request = NoRequest
    /\ backend = NoOutcome
    /\ calls = <<>>
    /\ log = <<>>
    /\ response = NoResponse
    /\ \E file \in LogFiles : viewer = [stage |-> "file", file |-> file]

ViewLogs ==
    /\ viewer.stage = "file"
    /\ \E args \in Arguments :
          viewer' = [stage |-> "done", file |-> viewer.file, args |-> args,
                     run |-> main(viewer.file, args)]
    /\ UNCHANGED <<CONFIG, request, backend, calls, log, response>>

LogsNext == ViewLogs

SpecLogs == LogsInit /\ [][LogsNext]_vars

-----------------------------------------------------------------------------
(* C11 *)

\* the viewer has run over a log file that exists
Viewed == viewer.stage = "done" /\ viewer.file # <<>>

IsParsed(line_data) == ~IsNone(line_data)

\* the lines of the file that parse, in input order
ParsedLines ==
    LET lines == viewer.file[1]
    IN SelectSeq([i \in DOMAIN lines |-> parse_log_line(lines[i])], IsParsed)

IsStart(line_data) == StartsWith(line_data.message, "INCOMING REQUEST")

\* the positions in ParsedLines of the lines that start a transaction
Starts == {i \in DOMAIN ParsedLines : IsStart(ParsedLines[i])}

\* the position of the k-th start
KthStart(k) ==
    CHOOSE i \in Starts : Cardinality({j \in Starts : j <= i}) = k

\* the lines from the k-th start up to the next start or the end of input
OwnLines(k) ==
    SubSeq(ParsedLines, KthStart(k),
           IF k < Cardinality(Starts) THEN KthStart(k + 1) - 1 ELSE Len(ParsedLines))

\* C11: for every sequence of log lines the grouper completes without
\* failure, emits as many transactions as there are parsed lines beginning
\* with "INCOMING REQUEST", and each transaction holds exactly its own
\* starting line and the detail lines up to the next start, in input order
\* (unparsable lines dropped, the last open transaction emitted).
C11_GrouperTotalAndExact ==
    Viewed =>
        /\ viewer.run.where # "group_request_logs"
        /\ Len(viewer.run.requests) = Cardinality(Starts)
        /\ \A k \in DOMAIN viewer.run.requests :
              viewer.run.requests[k].details = OwnLines(k)

-----------------------------------------------------------------------------
(* C12 *)

\* the detail line has level ERROR or a message beginning with "ERROR"
IsErrorLine(detail) == detail.level = "ERROR" \/ StartsWith(detail.message, "ERROR")

HasErrorLine(req) == \E i \in DOMAIN req.details : IsErrorLine(req.details[i])

\* C12: the closing summary of a displayed transaction says "Errors: Yes"
\* exactly when one of its detail lines has level ERROR or a message beginning
\* with "ERROR", whatever other prefix the line matches; so every transaction
\* displayed under the error-only filter is summarised as having errors.
C12_SummaryReportsErrors ==
    Viewed =>
        \A i \in DOMAIN viewer.run.shown :
            viewer.run.shown[i].summary # <<>> =>
                /\ viewer.run.shown[i].summary[1].errors = "Yes"
                      <=> HasErrorLine(viewer.run.selected[i])
                /\ viewer.args.errors => viewer.run.shown[i].summary[1].errors = "Yes"

-----------------------------------------------------------------------------
(* C13 *)

\* the message prefixes of the renderer and the section each one names
SectionPrefixes ==
    <<<<"Request Headers:", "REQUEST HEADERS:">>,
      <<"Request Body:", "REQUEST BODY:">>,
      <<"OUTGOING REQUEST", "OUTGOING REQUEST:">>,
      <<"Outgoing Headers:", "OUTGOING HEADERS:">>,
      <<"Outgoing Body:", "OUTGOING BODY:">>,
      <<"RESPONSE from Databricks", "RESPONSE:">>,
      <<"Response Body:", "RESPONSE BODY:">>,
      <<"ERROR", "ERROR:">>,
      <<"Error Response Body:", "ERROR RESPONSE BODY:">>>>

HeaderSections == {"REQUEST HEADERS:", "OUTGOING HEADERS:"}

\* the section the prefix of the message names ("none" when it has none of
\* the prefixes; no message has two)
ClassOf(message) ==
    IF \E k \in DOMAIN SectionPrefixes : StartsWith(message, SectionPrefixes[k][1])
    THEN SectionPrefixes[CHOOSE k \in DOMAIN SectionPrefixes :
                            StartsWith(message, SectionPrefixes[k][1])][2]
    ELSE "none"

\* the sections a transaction is to be rendered in, line by line
ExpectedLabels(req, verbose) ==
    LET Visible(detail) ==
            /\ ClassOf(detail.message) # "none"
            /\ verbose \/ ClassOf(detail.message) \notin HeaderSections
        visible == SelectSeq(req.details, Visible)
    IN [j \in DOMAIN visible |-> ClassOf(visible[j].message)]

PrintedLabels(display) == [j \in DOMAIN display.sections |-> display.sections[j].label]

\* C13: every detail line is rendered in the one section its message prefix
\* names (headers in verbose mode only); in particular a line beginning with
\* "Error Response Body:", logged by the gateway at level ERROR, is rendered
\* in the error-body section and not in the generic error section.
C13_SectionsFollowPrefix ==
    Viewed =>
        \A i \in DOMAIN viewer.run.shown :
            viewer.run.shown[i].raised = "none" =>
                PrintedLabels(viewer.run.shown[i])
                    = ExpectedLabels(viewer.run.selected[i], viewer.args.verbose)

====
